---- MODULE Spec2Model ----
(***************************************************************************)
(* Model of the two reference-embedding generator scripts                  *)
(*   research/bge-m3/generate_reference_embeddings.py                 (bge) *)
(*   research/multilingual-e5-large-instruct/generate_reference_embeddings.py (e5) *)
(*                                                                         *)
(* Spec   : one run of main() of either script, step by step.              *)
(* SpecFn : the pure functions (convert_tokenizer_outputs, the BGE-M3      *)
(*          post-processing, E5 encode) applied to bounded inputs.         *)
(*                                                                         *)
(* Conventions.  Python sequences are 0-based, TLA+ sequences 1-based; a   *)
(* numpy array of shape [1, n] is a one-element sequence holding a         *)
(* sequence of length n.  A dict is a function whose DOMAIN is its key     *)
(* set.  Floats are modelled by small integers (only their order and sign  *)
(* matter to the code).  The module's strings are ASCII: the test texts    *)
(* that hold non-ASCII characters are transliterated.                      *)
(***************************************************************************)
EXTENDS Integers, Sequences, FiniteSets, TLC

VARIABLES
    script,             \* which script runs: "bge" or "e5"
    tokenizer_exists,   \* os.path.exists(tokenizer_path)
    model_exists,       \* os.path.exists(model_path)
    env,                \* the two ONNX graphs found on disk (external to the repository)
    pc,                 \* position of main()
    printed,            \* the ERROR lines printed so far
    opened,             \* the inference sessions created so far, in creation order
    tokenizer_session,  \* embedder.tokenizer_session: a session handle, 0 before construction
    model_session,      \* embedder.model_session: a session handle, 0 before construction
    in_flight,          \* the session run() calls that have been issued and have not returned
    i,                  \* 1-based position of main's for loop in the test list
    locals,             \* the local variables of the running encode() call
    embeddings,         \* main's embeddings dict
    out_file,           \* the contents of the output JSON file, NoFile while it was never opened
    trace,              \* the steps taken so far, in order
    call                \* SpecFn: the last pure-function application (arguments and result)

mainvars == <<script, tokenizer_exists, model_exists, env, pc, printed, opened,
              tokenizer_session, model_session, in_flight, i, locals, embeddings,
              out_file, trace>>
vars == <<script, tokenizer_exists, model_exists, env, pc, printed, opened,
          tokenizer_session, model_session, in_flight, i, locals, embeddings,
          out_file, trace, call>>

(***************************************************************************)
(* Bounds of SpecFn's input sets.                                          *)
(***************************************************************************)
MaxLen == 3
MaxSeq == 2
MaxTexts == 3

Min(a, b) == IF a < b THEN a ELSE b

(***************************************************************************)
(* Python dict helpers.                                                    *)
(***************************************************************************)
EmptyDict == <<>>
DictGet(d, k, default) == IF k \in DOMAIN d THEN d[k] ELSE default
DictSet(d, k, v) == [x \in (DOMAIN d) \cup {k} |-> IF x = k THEN v ELSE d[x]]

(***************************************************************************)
(* convert_tokenizer_outputs                                               *)
(***************************************************************************)
Zip(a, b) == [k \in 1..Min(Len(a), Len(b)) |-> <<a[k], b[k]>>]

\* Python's tuple order on (index, token) pairs.
PairLess(p, q) == p[1] < q[1] \/ (p[1] = q[1] /\ p[2] < q[2])

RECURSIVE InsertPair(_, _)
InsertPair(p, s) ==
    IF s = <<>> THEN <<p>>
    ELSE IF PairLess(p, Head(s)) THEN <<p>> \o s
    ELSE <<Head(s)>> \o InsertPair(p, Tail(s))

RECURSIVE SortPairs(_)
SortPairs(s) ==
    IF s = <<>> THEN <<>>
    ELSE InsertPair(s[Len(s)], SortPairs(SubSeq(s, 1, Len(s) - 1)))

\* Mutant of SortTokenPairs: the sort is left out.
UnsortedPairs(s) == s

\* list.sort() of the token_pairs list.
SortTokenPairs(s) == SortPairs(s)

convert_tokenizer_outputs(tokens, token_indices) ==
    LET token_pairs == SortTokenPairs(Zip(token_indices, tokens))
        ordered_tokens == [k \in 1..Len(token_pairs) |-> token_pairs[k][2]]
        input_ids == <<ordered_tokens>>
        attention_mask == <<[k \in 1..Len(ordered_tokens) |-> 1]>>
    IN  [input_ids |-> input_ids, attention_mask |-> attention_mask]

(***************************************************************************)
(* OnnxBGEM3Embedder: special token ids and post-processing of encode      *)
(***************************************************************************)
special_token_ids == {0, 1, 2, 3}

Max(a, b) == IF a > b THEN a ELSE b

\* Mutant of SparseStep: the special-token filter is left out.
NoSpecialFilterStep(d, token_id, mask_i, weight) ==
    IF mask_i = 1 /\ weight > 0
    THEN DictSet(d, ToString(token_id), Max(DictGet(d, ToString(token_id), 0), weight))
    ELSE d

\* One iteration of the sparse-weights loop: position i holds token_id, has
\* attention-mask entry mask_i and sparse weight `weight`.
SparseStep(d, token_id, mask_i, weight) ==
    IF mask_i = 1 /\ token_id \notin special_token_ids
    THEN IF weight > 0
         THEN DictSet(d, ToString(token_id),
                      Max(DictGet(d, ToString(token_id), 0), weight))
         ELSE d
    ELSE d

RECURSIVE SparseLoop(_, _, _, _, _)
SparseLoop(ids, mask, weights, k, d) ==
    IF k > Len(ids) THEN d
    ELSE SparseLoop(ids, mask, weights, k + 1, SparseStep(d, ids[k], mask[k], weights[k]))

\* sparse_dict after the loop over enumerate(input_ids[0]).
SparseDict(input_ids, attention_mask, sparse_weights) ==
    SparseLoop(input_ids[1], attention_mask[1], sparse_weights[1], 1, EmptyDict)

RECURSIVE ColbertLoop(_, _, _, _)
ColbertLoop(rows, mask, k, acc) ==
    IF k > Len(rows) THEN acc
    ELSE ColbertLoop(rows, mask, k + 1,
                     IF mask[k] = 1 THEN Append(acc, rows[k]) ELSE acc)

\* Mutant of ColbertList: the loop starts at the second row.
ColbertSkipFirst(colbert_vectors, attention_mask) ==
    ColbertLoop(colbert_vectors[1], attention_mask[1], 2, <<>>)

\* colbert_list after the loop over range(colbert_vectors.shape[1]).
ColbertList(colbert_vectors, attention_mask) ==
    ColbertLoop(colbert_vectors[1], attention_mask[1], 1, <<>>)

\* attention_mask[0, i] with i beyond the mask's length raises IndexError.
ColbertIndexError(colbert_vectors, attention_mask) ==
    Len(colbert_vectors[1]) > Len(attention_mask[1])

\* What encode computes from the model outputs (the code after model_session.run):
\* model_outputs is the triple dense_embeddings, sparse_weights, colbert_vectors.
BgePostprocess(input_ids, attention_mask, model_outputs) ==
    LET dense_embeddings == model_outputs[1]
        sparse_weights == model_outputs[2]
        colbert_vectors == model_outputs[3]
    IN  IF ColbertIndexError(colbert_vectors, attention_mask)
        THEN [kind |-> "IndexError"]
        ELSE [kind |-> "dict",
              val |-> [dense_vecs |-> dense_embeddings[1],
                       lexical_weights |->
                           SparseDict(input_ids, attention_mask, sparse_weights),
                       colbert_vecs |-> ColbertList(colbert_vectors, attention_mask)]]

(***************************************************************************)
(* OnnxE5LargeInstructEmbedder: get_detailed_instruct and encode           *)
(***************************************************************************)
get_detailed_instruct(task_description, query) ==
    "Instruct: " \o task_description \o "\nQuery: " \o query

\* isinstance(texts, str): a single string becomes a one-element list.
E5Texts(is_str, texts) == IF is_str THEN <<texts>> ELSE texts

\* Mutant of E5Return: the list is returned whatever its length.
E5ReturnAlwaysList(embs) == [kind |-> "list", val |-> embs]

\* return embeddings if len(embeddings) > 1 else embeddings[0]
E5Return(embs) ==
    IF Len(embs) > 1 THEN [kind |-> "list", val |-> embs]
    ELSE IF Len(embs) = 1 THEN [kind |-> "vector", val |-> embs[1]]
    ELSE [kind |-> "IndexError"]

(***************************************************************************)
(* The fixed test data of the two main() functions.                        *)
(***************************************************************************)
\* bge main: test_texts (non-ASCII characters transliterated).
test_texts == <<
    "This is a simple test text.",
    "Hello world!",
    "A test text! Texto de prueba! Tekst dlya testa! Ce shi wen zi! Testtext! Testez le texte! Synaq matini! Testni tekst! Parikshan path! Kiem tra van ban!",
    "",
    "This is a longer text that should generate a meaningful embedding vector. The embedding model should capture the semantic meaning of this text.",
    "ONNX Runtime is a performance-focused engine for ONNX models.",
    "Text with numbers: 12345 and symbols: !@#$%^&*()",
    "English, Espanol, Russkij, Zhongwen, al-Arabiyya, Hindi" >>

\* e5 main: task
task == "Given a web search query, retrieve relevant passages that answer the query"

\* e5 main: test_cases, a dict literal with distinct keys, as its items in
\* insertion order (non-ASCII characters transliterated, pumpkin_document
\* abridged).
test_cases == <<
    [name |-> "instruct_protein_query",
     text |-> get_detailed_instruct(task, "how much protein should a female eat")],
    [name |-> "instruct_pumpkin_query",
     text |-> get_detailed_instruct(task, "nangua de jiachang zuofa")],
    [name |-> "protein_document",
     text |-> "As a general guideline, the CDC's average requirement of protein for women ages 19 to 70 is 46 grams per day. But, as you can see from this chart, you'll need to increase that if you're expecting or training for a marathon. Check out the chart below to see how much protein you should be eating each day."],
    [name |-> "pumpkin_document",
     text |-> "1. qing chao nan gua si yuan liao: nen nan gua ban ge 2. xiang cong chao nan gua yuan liao: nan gua 1 zhi"],
    [name |-> "simple_text", text |-> "This is a simple test text."],
    [name |-> "empty_text", text |-> ""],
    [name |-> "multilingual_text",
     text |-> "English, Espanol, Russkij, Zhongwen, al-Arabiyya, Hindi"],
    [name |-> "long_text",
     text |-> "This is a longer text that should generate a meaningful embedding vector. The embedding model should capture the semantic meaning of this text and provide high-quality representations for various downstream tasks."],
    [name |-> "technical_text",
     text |-> "ONNX Runtime is a performance-focused engine for ONNX models, enabling cross-platform inference with identical results."],
    [name |-> "classification_query",
     text |-> get_detailed_instruct("Classify the sentiment of this text", "I love this product!")],
    [name |-> "summarization_query",
     text |-> get_detailed_instruct("Summarize the following passage", "The quick brown fox jumps over the lazy dog. This sentence contains every letter of the alphabet.")] >>

\* The (key, text) pairs main's for loop visits, in order: bge keys its
\* results by the text itself, e5 by the case name.
Items(scr) ==
    IF scr = "bge"
    THEN [k \in 1..Len(test_texts) |-> [key |-> test_texts[k], text |-> test_texts[k]]]
    ELSE [k \in 1..Len(test_cases) |-> [key |-> test_cases[k].name, text |-> test_cases[k].text]]

(***************************************************************************)
(* The environment: the two ONNX graphs.  They are not code of the         *)
(* repository; a session's run() is a deterministic function of its input  *)
(* (or it raises).  The stubs below fix one such function per env value.   *)
(***************************************************************************)
Envs == [tok_order : {"asc", "rev"}, colbert_drop : {0, 1}]

RECURSIVE Digits(_)
Digits(n) == IF n = 0 THEN <<>> ELSE <<4 + (n % 4)>> \o Digits(n \div 4)

Reverse(s) == [k \in 1..Len(s) |-> s[Len(s) + 1 - k]]

\* tokenizer_session.run(None, {"inputs": [text]}): token ids (BOS 0, body, EOS 2)
\* paired with their positions; the graph may emit the pairs in any order.
TokenizerRun(e, text) ==
    LET ids == <<0>> \o Digits(Len(text)) \o <<2>>
        pos == [k \in 1..Len(ids) |-> k - 1]
    IN  IF e.tok_order = "asc"
        THEN [tokens |-> ids, token_indices |-> pos]
        ELSE [tokens |-> Reverse(ids), token_indices |-> Reverse(pos)]

RECURSIVE WeightedSum(_, _)
WeightedSum(ids, k) == IF k > Len(ids) THEN 0 ELSE k * ids[k] + WeightedSum(ids, k + 1)

\* model_session.run(None, {input_ids, attention_mask}): the list of output
\* tensors, each with a leading batch dimension of 1.
ModelRun(scr, e, input_ids, attention_mask) ==
    LET ids == input_ids[1]
        n == Len(ids)
        dense == << <<n, WeightedSum(ids, 1)>> >>
        sparse == << [k \in 1..n |-> ((ids[k] + 2 * k) % 4) - 1] >>
        m == IF n >= e.colbert_drop THEN n - e.colbert_drop ELSE 0
        colbert == << [k \in 1..m |-> <<ids[k + e.colbert_drop], k + e.colbert_drop>>] >>
    IN  IF scr = "bge" THEN <<dense, sparse, colbert>> ELSE <<dense>>

(***************************************************************************)
(* main(): one run of either script.                                       *)
(***************************************************************************)
NoLocals == [texts |-> <<>>, j |-> 0, tokens |-> <<>>, token_indices |-> <<>>,
             input_ids |-> <<>>, attention_mask |-> <<>>, model_outputs |-> <<>>,
             embs |-> <<>>, result |-> [kind |-> "none"]]

NoFile == [writes |-> 0, content |-> EmptyDict]

Event(op, item, text, session) ==
    [op |-> op, item |-> item, text |-> text, session |-> session]

MainInit ==
    /\ script \in {"bge", "e5"}
    /\ tokenizer_exists \in BOOLEAN
    /\ model_exists \in BOOLEAN
    /\ env \in Envs
    /\ pc = "start"
    /\ printed = <<>>
    /\ opened = <<>>
    /\ tokenizer_session = 0
    /\ model_session = 0
    /\ in_flight = {}
    /\ i = 1
    /\ locals = NoLocals
    /\ embeddings = EmptyDict
    /\ out_file = NoFile
    /\ trace = <<>>

\* Mutant of CheckTokenizer: the error is printed and main goes on.
CheckTokenizerNoReturn ==
    /\ pc = "start"
    /\ IF ~tokenizer_exists
       THEN printed' = Append(printed, "ERROR: Tokenizer file not found")
       ELSE UNCHANGED printed
    /\ pc' = "check_model"
    /\ UNCHANGED <<script, tokenizer_exists, model_exists, env, opened, tokenizer_session,
                   model_session, in_flight, i, locals, embeddings, out_file, trace, call>>

\* if not os.path.exists(tokenizer_path): print error; return
CheckTokenizer ==
    /\ pc = "start"
    /\ IF ~tokenizer_exists
       THEN /\ printed' = Append(printed, "ERROR: Tokenizer file not found")
            /\ pc' = "returned"
       ELSE /\ pc' = "check_model"
            /\ UNCHANGED printed
    /\ UNCHANGED <<script, tokenizer_exists, model_exists, env, opened, tokenizer_session,
                   model_session, in_flight, i, locals, embeddings, out_file, trace, call>>

\* if not os.path.exists(model_path): print error; return
CheckModel ==
    /\ pc = "check_model"
    /\ IF ~model_exists
       THEN /\ printed' = Append(printed, "ERROR: Model file not found")
            /\ pc' = "returned"
       ELSE /\ pc' = "init_tokenizer"
            /\ UNCHANGED printed
    /\ UNCHANGED <<script, tokenizer_exists, model_exists, env, opened, tokenizer_session,
                   model_session, in_flight, i, locals, embeddings, out_file, trace, call>>

\* __init__: self.tokenizer_session = ort.InferenceSession(tokenizer_path, ...)
InitTokenizerSession ==
    /\ pc = "init_tokenizer"
    /\ opened' = Append(opened, "tokenizer")
    /\ tokenizer_session' = Len(opened) + 1
    /\ trace' = Append(trace, Event("open_tokenizer", 0, "", Len(opened) + 1))
    /\ pc' = "init_model"
    /\ UNCHANGED <<script, tokenizer_exists, model_exists, env, printed, model_session,
                   in_flight, i, locals, embeddings, out_file, call>>

\* __init__: self.model_session = ort.InferenceSession(model_path, ...)
InitModelSession ==
    /\ pc = "init_model"
    /\ opened' = Append(opened, "model")
    /\ model_session' = Len(opened) + 1
    /\ trace' = Append(trace, Event("open_model", 0, "", Len(opened) + 1))
    /\ pc' = "loop"
    /\ UNCHANGED <<script, tokenizer_exists, model_exists, env, printed, tokenizer_session,
                   in_flight, i, locals, embeddings, out_file, call>>

\* ort.InferenceSession(...) raises (a file that is no valid graph): the
\* exception leaves __init__ and main.
InitSessionRaise ==
    /\ pc \in {"init_tokenizer", "init_model"}
    /\ trace' = Append(trace, Event("raise", 0, "", 0))
    /\ pc' = "raised"
    /\ UNCHANGED <<script, tokenizer_exists, model_exists, env, printed, opened,
                   tokenizer_session, model_session, in_flight, i, locals, embeddings,
                   out_file, call>>

\* Mutant of EncodeBegin: encode opens a fresh tokenizer session on every call.
EncodeBeginReopens ==
    /\ pc = "loop"
    /\ i <= Len(Items(script))
    /\ opened' = Append(opened, "tokenizer")
    /\ tokenizer_session' = Len(opened) + 1
    /\ locals' = [NoLocals EXCEPT !.texts = <<Items(script)[i].text>>, !.j = 1]
    /\ pc' = "tokenize"
    /\ UNCHANGED <<script, tokenizer_exists, model_exists, env, printed, model_session,
                   in_flight, i, embeddings, out_file, trace, call>>

\* for ... in test list: embedder.encode(text) is entered.  bge's encode takes
\* one text; e5's encode takes a string or a list and loops over the list.
EncodeBegin ==
    /\ pc = "loop"
    /\ i <= Len(Items(script))
    /\ LET text == Items(script)[i].text
           texts == IF script = "e5" THEN E5Texts(TRUE, text) ELSE <<text>>
       IN  IF Len(texts) = 0
           THEN /\ locals' = [NoLocals EXCEPT !.result = E5Return(<<>>)]
                /\ trace' = Append(trace, Event("raise", i, "", 0))
                /\ pc' = "raised"
           ELSE /\ locals' = [NoLocals EXCEPT !.texts = texts, !.j = 1]
                /\ trace' = trace
                /\ pc' = "tokenize"
    /\ UNCHANGED <<script, tokenizer_exists, model_exists, env, printed, opened,
                   tokenizer_session, model_session, in_flight, i, embeddings,
                   out_file, call>>

\* self.tokenizer_session.run(None, {"inputs": np.array([text])}) is called
TokenizerCall ==
    /\ pc = "tokenize"
    /\ in_flight' = in_flight \cup {[session |-> tokenizer_session, op |-> "tokenize", item |-> i]}
    /\ trace' = Append(trace, Event("tokenize", i, locals.texts[locals.j], tokenizer_session))
    /\ pc' = "tokenizing"
    /\ UNCHANGED <<script, tokenizer_exists, model_exists, env, printed, opened,
                   tokenizer_session, model_session, i, locals, embeddings, out_file, call>>

\* ... returns: tokens, _, token_indices = tokenizer_outputs;
\* input_ids, attention_mask = convert_tokenizer_outputs(tokens, token_indices)
TokenizerReturn ==
    /\ pc = "tokenizing"
    /\ LET out == TokenizerRun(env, locals.texts[locals.j])
           conv == convert_tokenizer_outputs(out.tokens, out.token_indices)
       IN  locals' = [locals EXCEPT !.tokens = out.tokens,
                                    !.token_indices = out.token_indices,
                                    !.input_ids = conv.input_ids,
                                    !.attention_mask = conv.attention_mask]
    /\ in_flight' = {c \in in_flight : c.op # "tokenize"}
    /\ pc' = "infer"
    /\ UNCHANGED <<script, tokenizer_exists, model_exists, env, printed, opened,
                   tokenizer_session, model_session, i, embeddings, out_file, trace, call>>

\* self.model_session.run(None, {"input_ids": ..., "attention_mask": ...}) is called
ModelCall ==
    /\ pc = "infer"
    /\ in_flight' = in_flight \cup {[session |-> model_session, op |-> "infer", item |-> i]}
    /\ trace' = Append(trace, Event("infer", i, locals.texts[locals.j], model_session))
    /\ pc' = "inferring"
    /\ UNCHANGED <<script, tokenizer_exists, model_exists, env, printed, opened,
                   tokenizer_session, model_session, i, locals, embeddings, out_file, call>>

\* ... returns the model outputs
ModelReturn ==
    /\ pc = "inferring"
    /\ locals' = [locals EXCEPT !.model_outputs =
                      ModelRun(script, env, locals.input_ids, locals.attention_mask)]
    /\ in_flight' = {c \in in_flight : c.op # "infer"}
    /\ pc' = "post"
    /\ UNCHANGED <<script, tokenizer_exists, model_exists, env, printed, opened,
                   tokenizer_session, model_session, i, embeddings, out_file, trace, call>>

\* Mutant of SessionRunRaise: the failure is caught and the loop goes on to the
\* next test string.
SessionRunRaiseSkipsItem ==
    /\ pc \in {"tokenizing", "inferring"}
    /\ in_flight' = {}
    /\ trace' = Append(trace, Event("raise", i, locals.texts[locals.j], 0))
    /\ i' = i + 1
    /\ pc' = "loop"
    /\ UNCHANGED <<script, tokenizer_exists, model_exists, env, printed, opened,
                   tokenizer_session, model_session, locals, embeddings, out_file, call>>

\* A session's run() raises: nothing catches it in encode or in main.
SessionRunRaise ==
    /\ pc \in {"tokenizing", "inferring"}
    /\ in_flight' = {}
    /\ trace' = Append(trace, Event("raise", i, locals.texts[locals.j], 0))
    /\ pc' = "raised"
    /\ UNCHANGED <<script, tokenizer_exists, model_exists, env, printed, opened,
                   tokenizer_session, model_session, i, locals, embeddings, out_file, call>>

\* The rest of encode.  bge: the three results are built and returned.  e5: the
\* embedding is appended; the loop goes on to the next text, or encode returns.
EncodePost ==
    /\ pc = "post"
    /\ IF script = "bge"
       THEN LET r == BgePostprocess(locals.input_ids, locals.attention_mask,
                                    locals.model_outputs)
            IN  /\ locals' = [locals EXCEPT !.result = r]
                /\ IF r.kind = "IndexError"
                   THEN /\ pc' = "raised"
                        /\ trace' = Append(trace, Event("raise", i, locals.texts[locals.j], 0))
                   ELSE /\ pc' = "accumulate"
                        /\ trace' = Append(trace, Event("postprocess", i, locals.texts[locals.j], 0))
       ELSE LET embs == Append(locals.embs, locals.model_outputs[1][1])
            IN  IF locals.j < Len(locals.texts)
                THEN /\ locals' = [locals EXCEPT !.embs = embs, !.j = locals.j + 1]
                     /\ pc' = "tokenize"
                     /\ trace' = trace
                ELSE /\ locals' = [locals EXCEPT !.embs = embs, !.result = E5Return(embs)]
                     /\ pc' = "accumulate"
                     /\ trace' = Append(trace, Event("postprocess", i, locals.texts[locals.j], 0))
    /\ UNCHANGED <<script, tokenizer_exists, model_exists, env, printed, opened,
                   tokenizer_session, model_session, in_flight, i, embeddings, out_file, call>>

\* Mutant of Accumulate: the dict is rebuilt from the one new entry.
AccumulateReplacesDict ==
    /\ pc = "accumulate"
    /\ LET item == Items(script)[i]
       IN  /\ embeddings' = DictSet(EmptyDict, item.key,
                                IF script = "bge" THEN locals.result.val
                                ELSE [text |-> item.text, embedding |-> locals.result])
           /\ trace' = Append(trace, Event("accumulate", i, item.key, 0))
    /\ i' = i + 1
    /\ pc' = "loop"
    /\ UNCHANGED <<script, tokenizer_exists, model_exists, env, printed, opened,
                   tokenizer_session, model_session, in_flight, locals, out_file, call>>

\* bge: embeddings[text] = result.   e5: embeddings[name] = {"text": text, "embedding": embedding}
Accumulate ==
    /\ pc = "accumulate"
    /\ LET item == Items(script)[i]
       IN  /\ embeddings' = DictSet(embeddings, item.key,
                                IF script = "bge" THEN locals.result.val
                                ELSE [text |-> item.text, embedding |-> locals.result])
           /\ trace' = Append(trace, Event("accumulate", i, item.key, 0))
    /\ i' = i + 1
    /\ pc' = "loop"
    /\ UNCHANGED <<script, tokenizer_exists, model_exists, env, printed, opened,
                   tokenizer_session, model_session, in_flight, locals, out_file, call>>

\* Mutant of WriteJson: the file is written without waiting for the loop's end.
WriteJsonBeforeLoopEnd ==
    /\ pc = "loop"
    /\ out_file' = [writes |-> out_file.writes + 1, content |-> embeddings]
    /\ trace' = Append(trace, Event("write", 0, "", 0))
    /\ pc' = "done"
    /\ UNCHANGED <<script, tokenizer_exists, model_exists, env, printed, opened,
                   tokenizer_session, model_session, in_flight, i, locals, embeddings, call>>

\* After the loop: with open(output_path, 'w') as f: json.dump(embeddings, f, ...)
WriteJson ==
    /\ pc = "loop"
    /\ i > Len(Items(script))
    /\ out_file' = [writes |-> out_file.writes + 1, content |-> embeddings]
    /\ trace' = Append(trace, Event("write", 0, "", 0))
    /\ pc' = "done"
    /\ UNCHANGED <<script, tokenizer_exists, model_exists, env, printed, opened,
                   tokenizer_session, model_session, in_flight, i, locals, embeddings, call>>

Idle == [fn |-> "none"]

Init == MainInit /\ call = Idle

Next ==
    \/ CheckTokenizer
    \/ CheckModel
    \/ InitTokenizerSession
    \/ InitModelSession
    \/ InitSessionRaise
    \/ EncodeBegin
    \/ TokenizerCall
    \/ TokenizerReturn
    \/ ModelCall
    \/ ModelReturn
    \/ SessionRunRaise
    \/ EncodePost
    \/ Accumulate
    \/ WriteJson

Spec == Init /\ [][Next]_vars

(***************************************************************************)
(* SpecFn: the pure functions applied to inputs drawn from bounded sets.   *)
(***************************************************************************)
\* Token values and positions handed to convert_tokenizer_outputs.
ConvTokens == {0, 5, 9}
ConvIndices == 0..(MaxLen - 1)

\* Token ids (the four special ids and two ordinary ones) and sparse weights
\* (negative, zero, two positive values) handed to the bge post-processing.
TokenIds == 0..5
Weights == {-1, 0, 1, 2}

\* Texts handed to e5's encode: their lengths differ, so do their embeddings.
SampleTexts == {"", "Hello world!", "This is a simple test text."}

\* One pass of e5 encode's loop body: the embedding of one text.
E5EmbedOne(e, text) ==
    LET out == TokenizerRun(e, text)
        conv == convert_tokenizer_outputs(out.tokens, out.token_indices)
        model_outputs == ModelRun("e5", e, conv.input_ids, conv.attention_mask)
    IN  model_outputs[1][1]

\* Mutant of e5_encode: each embedding is put at the front of the list.
e5_encode_reversed(e, is_str, texts) ==
    LET ts == E5Texts(is_str, texts)
        embs == [k \in 1..Len(ts) |-> E5EmbedOne(e, ts[Len(ts) + 1 - k])]
    IN  E5Return(embs)

\* e5 encode(texts) as a function of its argument (is_str: the argument is a str).
e5_encode(e, is_str, texts) ==
    LET ts == E5Texts(is_str, texts)
        embs == [k \in 1..Len(ts) |-> E5EmbedOne(e, ts[k])]
    IN  E5Return(embs)

\* bge encode(text) as a function of its argument.
bge_encode(e, text) ==
    LET out == TokenizerRun(e, text)
        conv == convert_tokenizer_outputs(out.tokens, out.token_indices)
        model_outputs == ModelRun("bge", e, conv.input_ids, conv.attention_mask)
    IN  BgePostprocess(conv.input_ids, conv.attention_mask, model_outputs)

FnInit ==
    /\ script = "bge"
    /\ tokenizer_exists = TRUE
    /\ model_exists = TRUE
    /\ env = [tok_order |-> "asc", colbert_drop |-> 0]
    /\ pc = "start"
    /\ printed = <<>>
    /\ opened = <<>>
    /\ tokenizer_session = 0
    /\ model_session = 0
    /\ in_flight = {}
    /\ i = 1
    /\ locals = NoLocals
    /\ embeddings = EmptyDict
    /\ out_file = NoFile
    /\ trace = <<>>
    /\ call = Idle

\* convert_tokenizer_outputs(tokens, token_indices) on equal-length sequences
ConvertApply ==
    /\ call = Idle
    /\ \E n \in 0..MaxLen :
         \E tokens \in [1..n -> ConvTokens], token_indices \in [1..n -> ConvIndices] :
            call' = [fn |-> "convert", tokens |-> tokens, token_indices |-> token_indices,
                     ret |-> convert_tokenizer_outputs(tokens, token_indices)]
    /\ UNCHANGED mainvars

\* bge encode from the tokenizer's return on: the tokenizer yields n tokens at
\* positions 0..n-1, the model yields n sparse weights and m token-level rows.
BgeEncodeApply ==
    /\ call = Idle
    /\ \E n \in 0..MaxSeq :
         \E tokens \in [1..n -> TokenIds], weights \in [1..n -> Weights], m \in 0..(n + 1) :
            LET conv == convert_tokenizer_outputs(tokens, [k \in 1..n |-> k - 1])
                model_outputs == << << <<n>> >>, <<weights>>, << [k \in 1..m |-> <<k>>] >> >>
            IN  call' = [fn |-> "bge_encode",
                         input_ids |-> conv.input_ids,
                         attention_mask |-> conv.attention_mask,
                         sparse_weights |-> model_outputs[2],
                         colbert_vectors |-> model_outputs[3],
                         ret |-> BgePostprocess(conv.input_ids, conv.attention_mask,
                                                model_outputs)]
    /\ UNCHANGED mainvars

\* e5 encode(text) with a single string
E5EncodeStrApply ==
    /\ call = Idle
    /\ \E e \in Envs, text \in SampleTexts :
            call' = [fn |-> "e5_encode_str", env |-> e, text |-> text,
                     texts |-> E5Texts(TRUE, text),
                     ret |-> e5_encode(e, TRUE, text)]
    /\ UNCHANGED mainvars

\* e5 encode(texts) with a list of n texts
E5EncodeListApply ==
    /\ call = Idle
    /\ \E e \in Envs, n \in 0..MaxTexts :
         \E texts \in [1..n -> SampleTexts] :
            call' = [fn |-> "e5_encode_list", env |-> e, texts |-> texts,
                     ret |-> e5_encode(e, FALSE, texts)]
    /\ UNCHANGED mainvars

FnNext ==
    \/ ConvertApply
    \/ BgeEncodeApply
    \/ E5EncodeStrApply
    \/ E5EncodeListApply

SpecFn == FnInit /\ [][FnNext]_vars

(***************************************************************************)
(* Claims about a run of main() (checked under Spec).                      *)
(***************************************************************************)
FilesMissing == ~tokenizer_exists \/ ~model_exists

IsPrefix(a, b) == Len(a) <= Len(b) /\ \A k \in 1..Len(a) : a[k] = b[k]

RECURSIVE Concat(_, _)
Concat(f, n) == IF n = 0 THEN <<>> ELSE Concat(f, n - 1) \o f[n]

\* C1: when the tokenizer file or the model file is missing, main returns
\* early after printing one error: no session is created, nothing is tokenized
\* or encoded, the output file is never opened; the tokenizer is checked first,
\* so with both files missing only the tokenizer error is printed.
C1_MissingFileReturnsEarly ==
    /\ FilesMissing =>
          /\ pc \in {"start", "check_model", "returned"}
          /\ pc = "check_model" => tokenizer_exists
          /\ opened = <<>> /\ tokenizer_session = 0 /\ model_session = 0
          /\ in_flight = {} /\ trace = <<>>
          /\ locals = NoLocals /\ embeddings = EmptyDict
          /\ out_file.writes = 0 /\ out_file = NoFile
    /\ pc = "returned" =>
          /\ FilesMissing
          /\ printed = IF ~tokenizer_exists
                       THEN <<"ERROR: Tokenizer file not found">>
                       ELSE <<"ERROR: Model file not found">>
    /\ pc # "returned" => printed = <<>>

C1_Witness ==
    /\ ~tokenizer_exists /\ ~model_exists
    /\ pc = "returned"
    /\ printed = <<"ERROR: Tokenizer file not found">>
    /\ out_file = NoFile

\* The steps a complete run takes, as (op, item, text) triples: the two
\* sessions are loaded, then per test string one tokenize, one infer, the
\* post-processing and the accumulation under its key, then one write.
ExpectedSteps(scr) ==
    LET items == Items(scr)
        per == [k \in 1..Len(items) |->
                   << <<"tokenize", k, items[k].text>>, <<"infer", k, items[k].text>>,
                      <<"postprocess", k, items[k].text>>, <<"accumulate", k, items[k].key>> >>]
    IN  << <<"open_tokenizer", 0, "">>, <<"open_model", 0, "">> >>
        \o Concat(per, Len(items)) \o << <<"write", 0, "">> >>

\* The steps taken so far, without the raise that may end them.
StepsTaken ==
    LET t == IF trace # <<>> /\ trace[Len(trace)].op = "raise"
             THEN SubSeq(trace, 1, Len(trace) - 1) ELSE trace
    IN  [k \in 1..Len(t) |-> <<t[k].op, t[k].item, t[k].text>>]

\* C2: in a run that passes the file checks the steps happen in the order
\* tokenizer session loaded, model session loaded, then for each test string in
\* list order exactly one tokenize, one inference, post-processing and
\* accumulation; the file is written exactly once, after every string.
C2_StepOrder ==
    /\ IsPrefix(StepsTaken, ExpectedSteps(script))
    /\ out_file.writes <= 1
    /\ out_file.writes = 1 <=> pc = "done"
    /\ pc = "done" =>
          /\ StepsTaken = ExpectedSteps(script)
          /\ Len(trace) = 3 + 4 * Len(Items(script))
          /\ i = Len(Items(script)) + 1

C2_Witness ==
    /\ script = "e5"
    /\ pc = "done"
    /\ out_file.writes = 1
    /\ trace[Len(trace)].op = "write"
    /\ trace[Len(trace) - 1] = Event("accumulate", 11, "summarization_query", 0)

\* C3: one tokenizer session and one model session are opened, at embedder
\* construction and never again; every session call of every test string
\* uses those two sessions; the handles are never replaced; at most one
\* session call is in flight at any time.
C3_SessionsOpenedOnce ==
    /\ IsPrefix(opened, <<"tokenizer", "model">>)
    /\ tokenizer_session \in {0, 1}
    /\ model_session \in {0, 2}
    /\ pc \notin {"start", "check_model", "init_tokenizer", "init_model", "returned", "raised"} =>
          /\ opened = <<"tokenizer", "model">>
          /\ tokenizer_session = 1
          /\ model_session = 2
    /\ \A k \in 1..Len(trace) :
          /\ trace[k].op = "tokenize" => trace[k].session = 1 /\ opened[1] = "tokenizer"
          /\ trace[k].op = "infer" => trace[k].session = 2 /\ opened[2] = "model"
    /\ Cardinality(in_flight) <= 1
    /\ \A c \in in_flight : c.session = IF c.op = "tokenize" THEN 1 ELSE 2

C3_Witness ==
    /\ script = "bge"
    /\ pc = "inferring"
    /\ i = 8
    /\ in_flight = {[session |-> 2, op |-> "infer", item |-> 8]}
    /\ opened = <<"tokenizer", "model">>
    /\ Cardinality({k \in 1..Len(trace) : trace[k].op = "tokenize" /\ trace[k].session = 1}) = 8

AllKeys(scr) == {Items(scr)[k].key : k \in 1..Len(Items(scr))}

\* C4: a failing session call propagates out of encode and main: the call
\* is not retried, no further test string is processed, the file is not
\* written, so the file never holds the results of only some test strings.
C4_FailurePropagates ==
    /\ \A k \in 1..Len(trace) : trace[k].op = "raise" => k = Len(trace) /\ pc = "raised"
    /\ pc = "raised" =>
          /\ trace # <<>> /\ trace[Len(trace)].op = "raise"
          /\ out_file = NoFile
          /\ in_flight = {}
    /\ \A k, l \in 1..Len(trace) :
          (k < l /\ trace[k].op \in {"tokenize", "infer"} /\ trace[k].op = trace[l].op)
             => trace[k].item # trace[l].item
    /\ out_file.writes > 0 => DOMAIN out_file.content = AllKeys(script)

C4_Witness ==
    /\ pc = "raised"
    /\ i = 3
    /\ Len(trace) >= 2
    /\ trace[Len(trace)].op = "raise"
    /\ trace[Len(trace) - 1].op = "infer" /\ trace[Len(trace) - 1].item = 3
    /\ Cardinality(DOMAIN embeddings) = 2
    /\ out_file = NoFile

\* C5: on a successful bge run the written mapping has one entry per test
\* text (the empty string included), keyed by the text, 8 entries in all, each
\* a structure with exactly the fields dense_vecs, lexical_weights and
\* colbert_vecs that encoding that text produces.
C5_BgeOutput ==
    (script = "bge" /\ pc = "done") =>
        /\ DOMAIN out_file.content = {test_texts[k] : k \in 1..Len(test_texts)}
        /\ Cardinality(DOMAIN out_file.content) = 8
        /\ "" \in DOMAIN out_file.content
        /\ \A t \in DOMAIN out_file.content :
              /\ DOMAIN out_file.content[t] = {"dense_vecs", "lexical_weights", "colbert_vecs"}
              /\ bge_encode(env, t).kind = "dict"
              /\ out_file.content[t] = bge_encode(env, t).val

C5_Witness ==
    /\ script = "bge"
    /\ pc = "done"
    /\ out_file.writes = 1
    /\ Cardinality(DOMAIN out_file.content) = 8
    /\ out_file.content[""].dense_vecs = <<2, 4>>

\* The text main handed to the tokenizer for test item k.
TokenizedText(k) ==
    LET p == CHOOSE q \in 1..Len(trace) : trace[q].op = "tokenize" /\ trace[q].item = k
    IN  trace[p].text

\* C6: on a successful e5 run the written mapping has one entry per case
\* name, each {text, embedding}: text is the string handed to the tokenizer for
\* that case (the full Instruct/Query string for instructed cases, the raw text
\* for documents), embedding is the one flat vector of that string, not a list
\* of vectors.
C6_E5Output ==
    (script = "e5" /\ pc = "done") =>
        /\ DOMAIN out_file.content = {test_cases[k].name : k \in 1..Len(test_cases)}
        /\ Cardinality(DOMAIN out_file.content) = Len(test_cases)
        /\ \A k \in 1..Len(test_cases) :
              LET entry == out_file.content[test_cases[k].name]
              IN  /\ DOMAIN entry = {"text", "embedding"}
                  /\ entry.text = test_cases[k].text
                  /\ entry.text = TokenizedText(k)
                  /\ entry.embedding.kind = "vector"
                  /\ entry.embedding.val = E5EmbedOne(env, entry.text)
        /\ out_file.content["classification_query"].text
              = "Instruct: Classify the sentiment of this text\nQuery: I love this product!"
        /\ out_file.content["simple_text"].text = "This is a simple test text."
        /\ out_file.content["empty_text"].text = ""

C6_Witness ==
    /\ script = "e5"
    /\ pc = "done"
    /\ Cardinality(DOMAIN out_file.content) = 11
    /\ out_file.content["instruct_protein_query"].text
          = "Instruct: Given a web search query, retrieve relevant passages that answer the query\nQuery: how much protein should a female eat"
    /\ out_file.content["instruct_protein_query"].embedding.kind = "vector"

(***************************************************************************)
(* Claims about the pure functions (checked under SpecFn).                 *)
(***************************************************************************)
SetMax(S) == CHOOSE x \in S : \A y \in S : y <= x

\* C7: lexical_weights has a key str(t) exactly for the token ids t outside
\* {0,1,2,3} that hold a weight > 0 at some position; the value of t is the
\* maximum weight over the positions holding t; every value is > 0; special
\* tokens and non-positive weights alone give the empty mapping.
C7_LexicalWeights ==
    (call.fn = "bge_encode" /\ call.ret.kind = "dict") =>
        LET ids == call.input_ids[1]
            w == call.sparse_weights[1]
            lw == call.ret.val.lexical_weights
            Kept == {t \in {ids[k] : k \in 1..Len(ids)} :
                        /\ t \notin {0, 1, 2, 3}
                        /\ \E k \in 1..Len(ids) : ids[k] = t /\ w[k] > 0}
        IN  /\ DOMAIN lw = {ToString(t) : t \in Kept}
            /\ \A t \in Kept :
                  lw[ToString(t)] = SetMax({w[k] : k \in {x \in 1..Len(ids) : ids[x] = t}})
            /\ \A key \in DOMAIN lw : lw[key] > 0
            /\ (\A k \in 1..Len(ids) : ids[k] \in {0, 1, 2, 3} \/ w[k] <= 0) => DOMAIN lw = {}
            /\ (ids = <<5, 4>> /\ w = <<2, 1>>) => lw = ("4" :> 1) @@ ("5" :> 2)

C7_Witness ==
    /\ call.fn = "bge_encode"
    /\ call.input_ids = << <<4, 4>> >>
    /\ call.sparse_weights = << <<1, 2>> >>
    /\ call.ret.kind = "dict"
    /\ call.ret.val.lexical_weights = ("4" :> 2)

\* C8: for equal-length tokens and token_indices, input_ids has shape [1, n]
\* and is a permutation of tokens in ascending order of the paired indices
\* (equal indices: by token value); attention_mask has the same shape and is
\* all ones; no token is dropped, duplicated or added.
C8_ConvertSorts ==
    call.fn = "convert" =>
        LET n == Len(call.tokens)
            ids == call.ret.input_ids
            mask == call.ret.attention_mask
            Key(k) == <<call.token_indices[k], call.tokens[k]>>
            LexLeq(a, b) == a[1] < b[1] \/ (a[1] = b[1] /\ a[2] <= b[2])
        IN  /\ Len(call.token_indices) = n
            /\ Len(ids) = 1 /\ Len(ids[1]) = n
            /\ Len(mask) = 1 /\ Len(mask[1]) = n
            /\ \A k \in 1..n : mask[1][k] = 1
            /\ \E perm \in Permutations(1..n) :
                  /\ \A k \in 1..n : ids[1][k] = call.tokens[perm[k]]
                  /\ \A k \in 1..(n - 1) : LexLeq(Key(perm[k]), Key(perm[k + 1]))

C8_Witness ==
    /\ call.fn = "convert"
    /\ call.tokens = <<0, 9, 5>>
    /\ call.token_indices = <<2, 0, 0>>
    /\ call.ret.input_ids = << <<5, 9, 0>> >>
    /\ call.ret.attention_mask = << <<1, 1, 1>> >>

\* C9: colbert_vecs holds exactly the token-level rows at the positions whose
\* attention-mask entry is 1, in ascending position order; the mask being all
\* ones, it holds every row of the model's token-level output and is as long
\* as that output's sequence length.
C9_ColbertRows ==
    (call.fn = "bge_encode" /\ call.ret.kind = "dict") =>
        LET rows == call.colbert_vectors[1]
            mask == call.attention_mask[1]
            cv == call.ret.val.colbert_vecs
            Kept == {k \in 1..Len(rows) : mask[k] = 1}
            Nth(j) == CHOOSE k \in Kept : Cardinality({x \in Kept : x <= k}) = j
        IN  /\ Len(cv) = Cardinality(Kept)
            /\ \A j \in 1..Len(cv) : cv[j] = rows[Nth(j)]
            /\ \A k \in 1..Len(mask) : mask[k] = 1
            /\ Len(mask) = Len(call.input_ids[1])
            /\ cv = rows
            /\ Len(cv) = Len(rows)

C9_Witness ==
    /\ call.fn = "bge_encode"
    /\ call.ret.kind = "dict"
    /\ Len(call.input_ids[1]) = 2
    /\ call.colbert_vectors = << << <<1>>, <<2>> >> >>
    /\ call.ret.val.colbert_vecs = << <<1>>, <<2>> >>

\* C10 as stated: e5 encode of a list of n texts returns a list of n
\* embeddings, the i-th that of the i-th text, for every n; a single string is
\* treated as a one-element list (the list encode loops over is <<text>>).
C10_Original ==
    /\ call.fn = "e5_encode_list" =>
          /\ call.ret.kind = "list"
          /\ Len(call.ret.val) = Len(call.texts)
          /\ \A k \in 1..Len(call.texts) : call.ret.val[k] = E5EmbedOne(call.env, call.texts[k])
    /\ call.fn = "e5_encode_str" => call.texts = <<call.text>>

\* C10 amended: e5 encode of a list of n >= 2 texts returns a list of n
\* embeddings, the i-th that of the i-th text; of a one-element list, or of a
\* single string (treated as a one-element list), it returns that text's
\* embedding itself, a flat vector; of the empty list it raises IndexError.
C10_Amended ==
    /\ call.fn = "e5_encode_list" =>
          /\ Len(call.texts) >= 2 =>
                /\ call.ret.kind = "list"
                /\ Len(call.ret.val) = Len(call.texts)
                /\ \A k \in 1..Len(call.texts) :
                      call.ret.val[k] = E5EmbedOne(call.env, call.texts[k])
          /\ Len(call.texts) = 1 =>
                /\ call.ret.kind = "vector"
                /\ call.ret.val = E5EmbedOne(call.env, call.texts[1])
          /\ Len(call.texts) = 0 => call.ret.kind = "IndexError"
    /\ call.fn = "e5_encode_str" =>
          /\ call.texts = <<call.text>>
          /\ call.ret.kind = "vector"
          /\ call.ret.val = E5EmbedOne(call.env, call.text)

C10_Witness ==
    /\ call.fn = "e5_encode_list"
    /\ call.texts = <<"Hello world!", "", "This is a simple test text.">>
    /\ call.ret.kind = "list"
    /\ Len(call.ret.val) = 3
    /\ call.ret.val[1] # call.ret.val[2]

====
